---- MODULE Spec2Model ----
(***************************************************************************)
(* network-speed: a one-second sampling loop over /proc/net/dev that       *)
(* prints one row of rates per tick (NetworkSpeed.run / NetworkSpeed.print)*)
(* together with its pure helpers NetDevs, format_bytes, format_packets    *)
(* and format_graph.                                                       *)
(*                                                                         *)
(* Numbers that are floats in the program are exact rationals <<n, d>>     *)
(* with d > 0.  Text is a sequence of one-character strings; the three     *)
(* block glyphs and the escape sequences are named tokens.                 *)
(***************************************************************************)
EXTENDS Integers, Sequences, FiniteSets, TLC

VARIABLES
    call,        \* arguments of the pure function under examination
    ret,         \* its result, None before the call
    clock,       \* the host's wall clock (time.time()), in clock units
    pc,          \* run(): "top" of the loop, "wait" at line 110, "crashed"
    now,         \* run(): now
    last_ts,     \* run(): last_ts
    last_stats,  \* run(): last_stats
    raised,      \* the exception that ended run(), None while it runs
    rows,        \* style and origin of every row printed so far, oldest first
    row,         \* the row printed last: arguments of print() and its text
    ticks,       \* number of loop iterations started
    samples,     \* (now, stats) of the two most recent iterations that printed
    t_end,       \* this iteration's clock reading of line 110
    slept        \* argument of this iteration's time.sleep(), None if none

vars == <<call, ret, clock, pc, now, last_ts, last_stats, raised, rows, row,
          ticks, samples, t_end, slept>>

\* an optional value is a sequence of at most one element
None == <<>>
Some(x) == <<x>>

\* the outcome of a call: nothing yet, a returned value or a raised exception
NotCalled == [state |-> "none"]
Returned(v) == [state |-> "returned", value |-> v]
Raised(e) == [state |-> "raised", exc |-> e]

-----------------------------------------------------------------------------
(* Bounds                                                                  *)

UnitsPerSec == 2        \* clock units in one second
MaxClock == 6           \* clock readings are 0..MaxClock
MaxWork == 3            \* longest time the body of one tick takes
MaxOversleep == 1       \* longest time sleep() returns late
MaxTicks == 3           \* loop iterations followed
MaxCounter == 3         \* a counter reads 0 or MaxCounter
MaxBack == 2            \* furthest the wall clock is set back in one step
RxBitsPerSec == 32      \* rx_speed handed to NetworkSpeed, in bits per second
TxBitsPerSec == 16      \* tx_speed handed to NetworkSpeed, in bits per second

MaxWidth == 4           \* bar widths 1..MaxWidth
MaxLimit == 3           \* bar limits 1..MaxLimit
MaxValueNum == 8        \* bar values 0, 1/2, ..., MaxValueNum/2
Window == 30            \* numerators examined on each side of a threshold
MaxSmall == 40          \* small integers examined by the formatters
MaxLines == 2           \* data lines in a counter table
MaxToken == 1           \* integer fields are 0..MaxToken

-----------------------------------------------------------------------------
(* Rationals                                                               *)

Rat(n, d) == <<n, d>>
FromInt(n) == <<n, 1>>
RatLess(a, b) == a[1] * b[2] < b[1] * a[2]
RatEq(a, b) == a[1] * b[2] = b[1] * a[2]
RatMin(a, b) == IF RatLess(b, a) THEN b ELSE a
RatNeg(a) == <<0 - a[1], a[2]>>
RatMul(a, b) == <<a[1] * b[1], a[2] * b[2]>>
RatInv(a) == IF a[1] > 0 THEN <<a[2], a[1]>> ELSE <<0 - a[2], 0 - a[1]>>
RatDiv(a, b) == RatMul(a, RatInv(b))
RatDivInt(a, k) == <<a[1], a[2] * k>>
RatGeqInt(a, k) == (a[1] \div a[2]) >= k
Floor(a) == a[1] \div a[2]
Ceil(a) == 0 - ((0 - a[1]) \div a[2])
Trunc(a) == IF a[1] >= 0 THEN a[1] \div a[2] ELSE 0 - ((0 - a[1]) \div a[2])

-----------------------------------------------------------------------------
(* Text                                                                    *)

DigitChar == <<"0", "1", "2", "3", "4", "5", "6", "7", "8", "9">>

RECURSIVE Digits(_)
Digits(n) ==
    IF n < 10 THEN <<DigitChar[n + 1]>>
    ELSE Append(Digits(n \div 10), DigitChar[(n % 10) + 1])

RECURSIVE Repeat(_, _)
Repeat(c, k) == IF k <= 0 THEN <<>> ELSE <<c>> \o Repeat(c, k - 1)

RECURSIVE Pow10(_)
Pow10(k) == IF k = 0 THEN 1 ELSE 10 * Pow10(k - 1)

\* nearest integer to a * scale for a >= 0, ties to even
RoundHalfEven(a, scale) ==
    LET q == a[1] \div a[2]
        t == (a[1] % a[2]) * scale
        base == q * scale + (t \div a[2])
        rem == t % a[2]
    IN  IF 2 * rem > a[2] \/ (2 * rem = a[2] /\ base % 2 = 1)
        THEN base + 1 ELSE base

\* str.__format__ with a minimum width: pad on the right
PadRight(s, width) == s \o Repeat(" ", width - Len(s))

\* float.__format__ "{value:<width>.<prec>f}"
FormatFixed(value, width, prec) ==
    LET neg == value[1] < 0
        m == RoundHalfEven(IF neg THEN RatNeg(value) ELSE value, Pow10(prec))
        ip == Digits(m \div Pow10(prec))
        fd == Digits(m % Pow10(prec))
        fp == IF prec = 0 THEN <<>>
              ELSE <<".">> \o Repeat("0", prec - Len(fd)) \o fd
        body == (IF neg THEN <<"-">> ELSE <<>>) \o ip \o fp
    IN  Repeat(" ", width - Len(body)) \o body

UnitText(u) == IF u = "" THEN <<>> ELSE <<u>>

-----------------------------------------------------------------------------
(* format_bytes                                                            *)

ByteUnits == <<"B", "K", "M", "G", "T", "P", "E", "Z", "Y", "R", "Q">>

RECURSIVE ScaleBytes(_, _)
ScaleBytes(value, units) ==
    IF RatGeqInt(value, 1000) /\ Len(units) > 1
    THEN ScaleBytes(RatDivInt(value, 1024), Tail(units))
    ELSE [value |-> value, units |-> units]

RenderBytes(value, unit) == FormatFixed(value, 7, 3) \o UnitText(unit)

format_bytes(value) ==
    LET r == ScaleBytes(value, ByteUnits)
    IN  RenderBytes(r.value, Head(r.units))

-----------------------------------------------------------------------------
(* format_packets                                                          *)

PacketUnits == <<"", "K", "M", "G", "T", "P", "E", "Z", "Y", "R", "Q">>

RECURSIVE ScalePackets(_, _)
ScalePackets(value, units) ==
    IF RatGeqInt(value, 10000) /\ Len(units) > 1
    THEN ScalePackets(RatDivInt(value, 1000), Tail(units))
    ELSE [value |-> value, units |-> units]

format_packets(value) ==
    IF ~RatGeqInt(value, 100000)
    THEN FormatFixed(value, 5, 0)
    ELSE LET r == ScalePackets(value, PacketUnits)
         IN  FormatFixed(r.value, 4, 0) \o UnitText(Head(r.units))

-----------------------------------------------------------------------------
(* format_graph                                                            *)

FullBlock == "FULL"       \* U+2588
RightHalf == "RHALF"      \* U+2590, drawn before a left-anchored bar
LeftHalf == "LHALF"       \* U+258C, drawn after a right-anchored bar

ProportionUnsaturated(value, limit) == RatDiv(value, limit)

\* min(value, limit) / limit
Proportion(value, limit) == RatDiv(RatMin(value, limit), limit)

HalfCellsRoundedDown(blocks) == Floor(Rat(2 * blocks[1], blocks[2]))

\* math.ceil(blocks * 2): the bar's length in half cells
HalfCells(blocks) == Ceil(Rat(2 * blocks[1], blocks[2]))

format_graph(value, width, limit, left) ==
    LET blocks0 == RatMul(Proportion(value, limit), FromInt(width))
        blocks == Rat(HalfCells(blocks0), 2)
        full == Repeat(FullBlock, Trunc(blocks))
        output == IF blocks[1] % 2 # 0
                  THEN IF left THEN <<RightHalf>> \o full
                       ELSE full \o <<LeftHalf>>
                  ELSE full
    IN  IF left THEN Repeat(" ", width - Len(output)) \o output
        ELSE output \o Repeat(" ", width - Len(output))

-----------------------------------------------------------------------------
(* NetDevs: the counter table read from /proc/net/dev                      *)
(*                                                                         *)
(* A file is [line1, line2, data].  line1 is the first line split at "|",  *)
(* each segment stripped; line2 is the second line split at "|", each      *)
(* segment split into words; a data line is [colons, ifname, tokens]: the  *)
(* number of ":" it holds, the text before the first one and the words     *)
(* after it, a word being an integer or the non-integer word NotInt.       *)

ValueError == "ValueError"
KeyError == "KeyError"
ZeroDivisionError == "ZeroDivisionError"
Tok(n) == [isint |-> TRUE, val |-> n]
NotInt == [isint |-> FALSE, val |-> 0]

\* (rxn, x) for x in rxh, then (txn, x) for x in txh
Header(file) ==
    LET names == Tail(file.line1)
        fields == Tail(file.line2)
    IN  [j \in 1..Len(fields[1]) |-> <<names[1], fields[1][j]>>]
        \o [j \in 1..Len(fields[2]) |-> <<names[2], fields[2][j]>>]

\* dict(zip(header, values)): pairs up to the shorter of the two, the last
\* value of a repeated key wins
Zip(header, values) ==
    LET n == IF Len(header) < Len(values) THEN Len(header) ELSE Len(values)
    IN  [k \in {header[j] : j \in 1..n} |->
            values[CHOOSE j \in 1..n :
                      /\ header[j] = k
                      /\ \A i \in (j + 1)..n : header[i] # k]]

LineOk(line) ==
    /\ line.colons = 1
    /\ \A j \in 1..Len(line.tokens) : line.tokens[j].isint

NetDevs(file) ==
    IF Len(file.line1) # 3 \/ Len(file.line2) # 3 THEN Raised(ValueError)
    ELSE IF \E i \in 1..Len(file.data) : ~LineOk(file.data[i])
    THEN Raised(ValueError)
    ELSE LET header == Header(file)
             last(n) == CHOOSE i \in 1..Len(file.data) :
                           /\ file.data[i].ifname = n
                           /\ \A j \in (i + 1)..Len(file.data) :
                                 file.data[j].ifname # n
             ints(i) == [j \in 1..Len(file.data[i].tokens) |->
                            file.data[i].tokens[j].val]
         IN  Returned([n \in {file.data[i].ifname : i \in 1..Len(file.data)}
                          |-> Zip(header, ints(last(n)))])

-----------------------------------------------------------------------------
(* Inputs of the pure functions                                            *)

GoodLine1 == <<"Inter-", "Receive", "Transmit">>
GoodLine2 == <<<<"face">>, <<"bytes", "packets">>, <<"bytes", "packets">>>>
Columns == Len(GoodLine2[2]) + Len(GoodLine2[3])

Line1s == {GoodLine1, <<"Inter-", "Receive">>}

\* words v, v+1, ... so that every position holds a different value
Words(len, v) == [j \in 1..len |-> Tok(v + j - 1)]

TokenSeqs ==
    UNION {{Words(len, v), [Words(len, v) EXCEPT ![len] = NotInt]} :
              len \in (Columns - 1)..(Columns + 1), v \in 0..MaxToken}

DataLines ==
    [colons : {1}, ifname : {"eth0", "lo"}, tokens : TokenSeqs]
    \cup {[colons |-> 0, ifname |-> "eth0", tokens |-> <<>>]}

RECURSIVE SeqsUpTo(_, _)
SeqsUpTo(S, n) ==
    IF n = 0 THEN {<<>>}
    ELSE LET shorter == SeqsUpTo(S, n - 1)
         IN  shorter \cup {Append(q, x) : q \in shorter, x \in S}

Files ==
    {[line1 |-> l1, line2 |-> GoodLine2, data |-> d] :
        l1 \in Line1s, d \in SeqsUpTo(DataLines, MaxLines) \ {<<>>}}

ByteInputs ==
    {FromInt(n) : n \in 0..MaxSmall}
    \cup {FromInt(n) : n \in (1000 - Window)..(1000 + Window)}
    \cup {Rat(n, 2048) : n \in (2048000 - Window)..(2048000 + Window)}

PacketInputs ==
    {FromInt(n) : n \in 0..MaxSmall}
    \cup {Rat(n, 2) : n \in (200000 - Window)..(200000 + Window)}
    \cup {FromInt(n) : n \in (9999500 - Window)..(9999500 + Window)}

GraphInputs ==
    [value : {Rat(n, 2) : n \in 0..MaxValueNum},
     width : 1..MaxWidth,
     limit : {FromInt(n) : n \in 1..MaxLimit},
     left : BOOLEAN]

-----------------------------------------------------------------------------
(* The loop's state while a pure function is examined on its own           *)

LoopIdle ==
    /\ clock = 0 /\ pc = "idle" /\ now = None /\ last_ts = None
    /\ last_stats = None /\ raised = None /\ rows = <<>> /\ row = None
    /\ ticks = 0 /\ samples = <<>> /\ t_end = None /\ slept = None

loopVars == <<clock, pc, now, last_ts, last_stats, raised, rows, row, ticks,
              samples, t_end, slept>>

InitBytes == LoopIdle /\ ret = NotCalled /\ call \in ByteInputs
CallBytes ==
    /\ ret = NotCalled
    /\ ret' = Returned(format_bytes(call))
    /\ UNCHANGED <<call, loopVars>>
SpecBytes == InitBytes /\ [][CallBytes]_vars

InitPackets == LoopIdle /\ ret = NotCalled /\ call \in PacketInputs
CallPackets ==
    /\ ret = NotCalled
    /\ ret' = Returned(format_packets(call))
    /\ UNCHANGED <<call, loopVars>>
SpecPackets == InitPackets /\ [][CallPackets]_vars

InitGraph == LoopIdle /\ ret = NotCalled /\ call \in GraphInputs
CallGraph ==
    /\ ret = NotCalled
    /\ ret' = Returned(format_graph(call.value, call.width,
                                    call.limit, call.left))
    /\ UNCHANGED <<call, loopVars>>
SpecGraph == InitGraph /\ [][CallGraph]_vars

InitRead == LoopIdle /\ ret = NotCalled /\ call \in Files
CallRead ==
    /\ ret = NotCalled
    /\ ret' = NetDevs(call)
    /\ UNCHANGED <<call, loopVars>>
SpecRead == InitRead /\ [][CallRead]_vars

-----------------------------------------------------------------------------
(* NetworkSpeed                                                            *)

Interface == "eth0"
Width == 79
rx_speed == Rat(RxBitsPerSec, 8)
tx_speed == Rat(TxBitsPerSec, 8)

Green == "ESC[32m"
Red == "ESC[31m"
DefaultColour == "ESC[39m"
Underline == "ESC[4m"
NoUnderline == "ESC[24m"

RxBytes == <<"Receive", "bytes">>
RxPackets == <<"Receive", "packets">>
TxBytes == <<"Transmit", "bytes">>
TxPackets == <<"Transmit", "packets">>
Shown == <<RxBytes, RxPackets, TxBytes, TxPackets>>

Max0(n) == IF n > 0 THEN n ELSE 0

\* what /proc/net/dev may hold when a tick reads it
\* every counter at 0, every counter at MaxCounter, or one of them ahead
CounterSeqs ==
    {[j \in 1..Columns |-> Tok(v)] : v \in {0, MaxCounter}}
    \cup {[j \in 1..Columns |-> Tok(IF j = k THEN MaxCounter ELSE 0)] :
             k \in 1..Columns}

TickFiles ==
    {[line1 |-> GoodLine1, line2 |-> GoodLine2,
      data |-> <<[colons |-> 1, ifname |-> Interface, tokens |-> t]>>] :
        t \in CounterSeqs
              \cup {Words(Columns - 1, 0),
                    [Words(Columns, 0) EXCEPT ![Columns] = NotInt]}}
    \cup {[line1 |-> GoodLine1, line2 |-> GoodLine2,
           data |-> <<[colons |-> 1, ifname |-> "lo",
                       tokens |-> Words(Columns, 0)]>>]}

\* time.time() readings are clock units; their difference in seconds
Seconds(units) == Rat(units, UnitsPerSec)

AdjustFixed(t, last) == FromInt(1)

\* adjust = 1 / (now - last_ts)
Adjust(t, last) == RatInv(Seconds(t - last))

\* the four arguments of print() on a tick that has a baseline
Rates(stats, last, adjust) ==
    [i \in 1..4 |-> RatMul(FromInt(Max0(stats[Shown[i]] - last[Shown[i]])),
                           adjust)]

\* the four arguments of print() on the tick without a baseline
Absolute(stats) == [i \in 1..4 |-> FromInt(Max0(stats[Shown[i]]))]

FirstAlways(ts) == TRUE

\* last_ts is None
ColdStart(ts) == ts = None

\* NetworkSpeed.print: the text written to the terminal
RowText(rx_bytes, rx_packets, tx_bytes, tx_packets, first) ==
    LET left == PadRight(format_packets(rx_packets), 5) \o <<" ">>
                \o PadRight(format_bytes(rx_bytes), 8) \o <<" ", "|">>
        right == <<"|", " ">> \o PadRight(format_bytes(tx_bytes), 8)
                 \o <<" ">> \o PadRight(format_packets(tx_packets), 5)
        room == Width - Len(left) - Len(right)
        available == (IF room > 10 THEN room ELSE 10) \div 2
        left2 == left \o <<Green>>
                 \o format_graph(rx_bytes, available, rx_speed, TRUE)
                 \o <<DefaultColour>>
        right2 == <<Red>> \o format_graph(tx_bytes, available, tx_speed, FALSE)
                  \o <<DefaultColour>> \o right
    IN  IF first THEN <<Underline>> \o left2 \o right2 \o <<NoUnderline>>
        ELSE left2 \o right2

print(args, first) ==
    [args |-> args, first |-> first,
     text |-> RowText(args[1], args[2], args[3], args[4], first)]

\* lines 87-109 end in an exception: run() is over
Crash(e) ==
    /\ pc' = "crashed"
    /\ raised' = Some(e)
    /\ UNCHANGED <<last_ts, last_stats, rows, row, samples>>

\* lines 87-109 print a row and store the new baseline
Emit(t, stats, args, first) ==
    /\ row' = Some(print(args, first))
    /\ rows' = Append(rows, [first |-> first,
                             origin |-> IF first THEN "counters" ELSE "rates"])
    /\ last_ts' = Some(t)
    /\ last_stats' = Some(stats)
    /\ samples' = (IF Len(samples) = 2 THEN Tail(samples) ELSE samples)
                  \o <<[ts |-> t, stats |-> stats]>>
    /\ pc' = "wait"
    /\ UNCHANGED raised

\* one iteration of run() up to line 109; the work takes `work` clock units
Tick ==
    /\ pc = "top"
    /\ ticks < MaxTicks
    /\ \E f \in TickFiles, work \in 0..MaxWork :
          LET t == clock
              table == NetDevs(f)
          IN  /\ clock + work <= MaxClock
              /\ clock' = clock + work
              /\ now' = Some(t)
              /\ ticks' = ticks + 1
              /\ t_end' = None
              /\ slept' = None
              /\ IF table.state = "raised" THEN Crash(table.exc)
                 ELSE IF Interface \notin DOMAIN table.value
                 THEN Crash(KeyError)
                 ELSE LET stats == table.value[Interface]
                          bound == \A i \in 1..4 : Shown[i] \in DOMAIN stats
                      IN  IF ~ColdStart(last_ts)
                          THEN IF t = last_ts[1] THEN Crash(ZeroDivisionError)
                               ELSE IF ~bound THEN Crash(KeyError)
                               ELSE Emit(t, stats,
                                         Rates(stats, last_stats[1],
                                               Adjust(t, last_ts[1])),
                                         FALSE)
                          ELSE IF ~bound THEN Crash(KeyError)
                               ELSE Emit(t, stats, Absolute(stats), TRUE)
    /\ UNCHANGED <<call, ret>>

WaitFixed(t, start) == UnitsPerSec

\* wait_s = (now + 1) - time.time()
Wait(t, start) == (start + UnitsPerSec) - t

\* lines 110-112; time.sleep() may return up to MaxOversleep late
EndTick ==
    /\ pc = "wait"
    /\ LET t == clock
           w == Wait(t, now[1])
       IN  /\ t_end' = Some(t)
           /\ IF w > 0
              THEN /\ slept' = Some(w)
                   /\ \E late \in 0..MaxOversleep :
                         /\ clock + w + late <= MaxClock
                         /\ clock' = clock + w + late
              ELSE /\ slept' = None
                   /\ clock' = clock
    /\ pc' = "top"
    /\ UNCHANGED <<call, ret, now, last_ts, last_stats, raised, rows, row,
                   ticks, samples>>

\* the wall clock is set back while run() is between two readings of it
ClockSetBack ==
    /\ pc \in {"top", "wait"}
    /\ \E back \in 1..MaxBack :
          /\ clock - back >= 0
          /\ clock' = clock - back
    /\ UNCHANGED <<call, ret, pc, now, last_ts, last_stats, raised, rows, row,
                   ticks, samples, t_end, slept>>

Init ==
    /\ call = None /\ ret = NotCalled
    /\ clock = 0
    /\ pc = "top" /\ now = None /\ last_ts = None /\ last_stats = None
    /\ raised = None /\ rows = <<>> /\ row = None /\ ticks = 0
    /\ samples = <<>> /\ t_end = None /\ slept = None

Next == Tick \/ EndTick \/ ClockSetBack

Spec == Init /\ [][Next]_vars

-----------------------------------------------------------------------------
(* Properties of the loop                                                  *)

Cells == {FullBlock, RightHalf, LeftHalf, " "}
Counter(sample, i) == sample.stats[Shown[i]]
Elapsed == samples[2].ts - samples[1].ts

\* C1: on every tick after the first whose elapsed time is positive, each
\* of the four rates handed to print() is max(0, (current - previous) /
\* elapsed), current and previous being the counters of this tick and of the
\* tick right before it and elapsed the time between those two ticks.
C1_RateFromPrecedingTick ==
    (Len(rows) >= 2 /\ Elapsed > 0) =>
        \A i \in 1..4 :
            LET d == Counter(samples[2], i) - Counter(samples[1], i)
                expected == IF d > 0 THEN Rat(d * UnitsPerSec, Elapsed)
                            ELSE FromInt(0)
            IN  RatEq(row[1].args[i], expected)

\* a third row computed over an interval longer than one second, with one
\* counter that grew and one that fell back
C1_Witness ==
    /\ Len(rows) = 3
    /\ Elapsed > UnitsPerSec
    /\ \E i \in 1..4 : Counter(samples[2], i) > Counter(samples[1], i)
    /\ \E i \in 1..4 : Counter(samples[2], i) < Counter(samples[1], i)
    /\ \E i \in 1..4 : row[1].args[i][1] > 0

\* C2: every component of every reading handed to print() is >= 0, whatever
\* the two samples and the two clock readings are.
C2_NonNegative ==
    row # None => \A i \in 1..4 : row[1].args[i][1] >= 0

\* C3: a tick that finds elapsed <= 0 does not fail: it completes, shows the
\* previous reading again, and the loop goes on to its end-of-tick wait.
C3_NoIntervalReusesReading ==
    [][(/\ pc = "top"
        /\ ticks' = ticks + 1
        /\ last_ts # None
        /\ now'[1] <= last_ts[1]
        /\ raised' \notin {Some(ValueError), Some(KeyError)})
       => (/\ pc' = "wait"
           /\ raised' = None
           /\ row'[1].args = row[1].args)]_vars

\* C4: the first row printed, and no other, shows the absolute counters and
\* is underlined; every later row shows rates and is not styled.
C4_OnlyFirstRowStyled ==
    /\ \A i \in 1..Len(rows) :
          /\ rows[i].first <=> (i = 1)
          /\ rows[i].origin = (IF i = 1 THEN "counters" ELSE "rates")
    /\ row # None =>
          /\ row[1].first <=> (Len(rows) = 1)
          /\ (Head(row[1].text) = Underline) <=> (Len(rows) = 1)
          /\ (row[1].text[Len(row[1].text)] = NoUnderline) <=> (Len(rows) = 1)
          /\ Len(rows) = 1 =>
                \A i \in 1..4 :
                    row[1].args[i] = FromInt(Counter(samples[1], i))

\* three rows printed, the last one from rates
C4_Witness ==
    /\ Len(rows) = 3
    /\ ~row[1].first
    /\ Head(row[1].text) # Underline

\* C5: at the end of a tick the loop sleeps exactly the time left until
\* tickStart + 1 second when some is left and wakes no earlier than that;
\* otherwise it does not sleep and goes on at once; it never asks for a zero
\* or negative sleep; a tick that reaches its end has printed exactly one row
\* and the wait prints none.
C5_SleepToDeadline ==
    [][/\ (pc = "wait" /\ pc' = "top") =>
            LET deadline == now[1] + UnitsPerSec
            IN  /\ clock < deadline =>
                      /\ slept' = Some(deadline - clock)
                      /\ clock' >= deadline
                /\ clock >= deadline =>
                      /\ slept' = None
                      /\ clock' = clock
                /\ slept' # None => slept'[1] > 0
                /\ rows' = rows
       /\ (pc = "top" /\ pc' = "wait") =>
            /\ Len(rows') = Len(rows) + 1
            /\ Len(rows') = ticks'
      ]_vars

\* after a tick that overran its second, a tick that slept part of a second
C5_Witness ==
    /\ Len(rows) = 3
    /\ pc = "top"
    /\ Elapsed > UnitsPerSec
    /\ slept # None
    /\ slept[1] < UnitsPerSec

-----------------------------------------------------------------------------
(* Properties of the pure functions                                        *)

\* C6: a table in which some data line holds a number of values other than
\* the header's column count is refused, and no table is returned in which
\* an interface lacks one of the header's columns.
C6_ColumnCountChecked ==
    (ret.state # "none" /\ Len(call.line1) = 3) =>
        /\ (\E i \in 1..Len(call.data) :
               Len(call.data[i].tokens) # Columns) => ret.state = "raised"
        /\ ret.state = "returned" =>
               \A n \in DOMAIN ret.value :
                   DOMAIN ret.value[n] =
                       {Header(call)[j] : j \in 1..Len(Header(call))}

\* C7: for value >= 0, limit > 0 and width >= 1 the bar has exactly width
\* cells, each a full block, a half block or a blank.
C7_BarWidth ==
    ret.state = "returned" =>
        /\ Len(ret.value) = call.width
        /\ \A i \in 1..Len(ret.value) : ret.value[i] \in Cells

\* a bar for a value beyond the limit
C7_Witness ==
    /\ ret.state = "returned"
    /\ RatLess(call.limit, call.value)
    /\ call.width > 1
    /\ Len(ret.value) = call.width

\* C8: with cells = ceil(min(value, limit) / limit * width * 2) / 2 the bar
\* is floor(cells) full blocks, one half block exactly when cells has a half
\* left over, and blanks; a left-anchored bar is blanks, half block, full
\* blocks and a right-anchored one full blocks, half block, blanks.  So value
\* 0 gives blanks only, a value at or beyond the limit full blocks only, and
\* a value above 0 at least one cell that is not blank.
C8_BarShape ==
    ret.state = "returned" =>
        LET v == call.value
            l == call.limit
            w == call.width
            m == IF v[1] * l[2] < l[1] * v[2] THEN v ELSE l
            reach(k) == k * l[1] * m[2] >= 2 * w * m[1] * l[2]
            c == CHOOSE k \in 0..(2 * w) :
                    reach(k) /\ \A j \in 0..(k - 1) : ~reach(j)
            full == c \div 2
            half == c % 2
            pad == w - full - half
            out == ret.value
        IN  /\ DOMAIN out = 1..w
            /\ \A i \in 1..w :
                  out[i] = IF call.left
                           THEN IF i <= pad THEN " "
                                ELSE IF half = 1 /\ i = pad + 1 THEN RightHalf
                                ELSE FullBlock
                           ELSE IF i <= full THEN FullBlock
                                ELSE IF half = 1 /\ i = full + 1 THEN LeftHalf
                                ELSE " "
            /\ v[1] = 0 => \A i \in 1..w : out[i] = " "
            /\ ~RatLess(v, l) => \A i \in 1..w : out[i] = FullBlock
            /\ v[1] > 0 => \E i \in 1..w : out[i] # " "

\* a bar made of blanks, a half block and full blocks
C8_Witness ==
    /\ ret.state = "returned"
    /\ \E i \in 1..Len(ret.value) : ret.value[i] \in {RightHalf, LeftHalf}
    /\ \E i \in 1..Len(ret.value) : ret.value[i] = FullBlock
    /\ \E i \in 1..Len(ret.value) : ret.value[i] = " "

Digit == {DigitChar[i] : i \in 1..10}

\* C9: for every value >= 0 the formatted byte rate has length 8: seven
\* characters of number with three decimals, then one unit character.
C9_ByteRateWidth ==
    ret.state = "returned" =>
        LET out == ret.value
        IN  /\ Len(out) = 8
            /\ out[8] \in {ByteUnits[i] : i \in 1..Len(ByteUnits)}
            /\ out[4] = "."
            /\ \A i \in 5..7 : out[i] \in Digit
            /\ \A i \in 1..3 : out[i] \in Digit \cup {" "}

\* C10: for every value >= 0 the formatted packet rate has 5 columns: below
\* 100000 a right-justified integer without unit, otherwise an integer of at
\* most 4 digits followed by one unit character.
C10_PacketRateWidth ==
    ret.state = "returned" =>
        LET out == ret.value
        IN  /\ Len(out) = 5
            /\ IF ~RatGeqInt(call, 100000)
               THEN \A i \in 1..5 : out[i] \in Digit \cup {" "}
               ELSE /\ \A i \in 1..4 : out[i] \in Digit \cup {" "}
                    /\ out[5] \in {PacketUnits[i] : i \in 2..Len(PacketUnits)}

====
